---- MODULE Spec2Model ----
(***************************************************************************)
(* poc-http: the server of cmd/server/main.go.  A gin engine with two      *)
(* middlewares (WithRateLimit, WithTimeLimit) built once by newHandler,    *)
(* the /ping handler that races time.After(Delay) against the request      *)
(* context, and the control endpoints that read and write the package      *)
(* variables RateLimitRate, RateLimitBurst, TimeLimit and Delay.           *)
(*                                                                         *)
(* Time.  Durations are nanoseconds, as time.Duration.  Every statement    *)
(* of a handler is instantaneous; time passes (Tick) only while every      *)
(* request in flight is suspended in the select of handlePing, and never   *)
(* beyond the instant at which a channel of a waiting select is ready.     *)
(*                                                                         *)
(* Steps.  Requests are served by one goroutine each and the package       *)
(* variables are plain (unsynchronised) variables.  An action runs one     *)
(* request from its arrival, through both middlewares and its handler, up  *)
(* to the point where another goroutine can make a difference: the select  *)
(* of handlePing, and the second of the two accesses that                  *)
(* handleGetRateLimit and handleUpdateRateLimit make to the package        *)
(* variables.  A second action runs it from there through the response and *)
(* the deferred cancel of WithTimeLimit.                                   *)
(*                                                                         *)
(* Load programs.  The two client programs of part_000 (main, its          *)
(* WaitGroup, its requester goroutines, ping) are the variable harness     *)
(* and the specification HarnessSpec; there a ping comes back with any     *)
(* outcome the server or the transport can produce.                        *)
(***************************************************************************)
EXTENDS Integers, FiniteSets, Sequences, TLC

\* time.Millisecond, in nanoseconds
Millisecond == 1000000

\* the number of requests one behaviour serves
NReq == 3

Reqs == 1..NReq

\* http status codes used by the handlers (0: nothing written yet)
StatusOK == 200
StatusBadRequest == 400
StatusTooManyRequests == 429
StatusInternalServerError == 500

\* ctx.Err().Error()
DeadlineExceeded == "context deadline exceeded"
Canceled == "context canceled"

\* a request context without a deadline
NoDeadline == -1

\* one token of the limiter, in thousandths of a token
Token == 1000

(***************************************************************************)
(* Inputs.  The package variables' initialisers are the defaults the       *)
(* operator ships the server with: the sets hold the literals of the       *)
(* source (rate 0, burst 1, time limit 500 ms, delay 0) and the other      *)
(* configurations the middlewares are written for.                         *)
(***************************************************************************)
StartRates == {0, 4}
StartBursts == {1, 2}
StartTimeLimits == {0, 500 * Millisecond}

\* a body ShouldBindJSON rejects
BadBody == [Malformed |-> TRUE]

\* a request without a body
NoBody == [Empty |-> TRUE]

UpdateRateLimitRequest == {[Rate |-> 0, Burst |-> 2], [Rate |-> 4, Burst |-> 1],
                           [Rate |-> -1, Burst |-> 0]}
UpdateTimeLimitRequest == {[TimeLimit |-> 0], [TimeLimit |-> 250]}
UpdateDelayRequest == {[Delay |-> -250], [Delay |-> 250], [Delay |-> 750]}

\* JSON bodies in the range form, which UpdateDelayRequest has no fields for
DelayBounds == {[minimumDelay |-> 250, maximumDelay |-> 750]}

Routes == {"GET /ping", "GET /rate-limit", "PUT /rate-limit", "GET /time-limit",
           "PUT /time-limit", "GET /delay", "PUT /delay"}

\* how far one Tick moves the clock
TickStep == 250 * Millisecond

VARIABLES
    RateLimitRate,   \* package variable (float64, requests per second)
    RateLimitBurst,  \* package variable
    TimeLimit,       \* package variable (time.Duration)
    Delay,           \* package variable (time.Duration)
    limiter,         \* the closure WithRateLimit returned to handler.Use
    timeout,         \* the timeout WithTimeLimit captured in its closure
    req,             \* the requests: position, context, response
    run,             \* history: the Allow calls since the clock last moved
    pairs,           \* history: the (rate, burst) pairs ever submitted or started with
    ctl,             \* history: what the control endpoints were last asked and answered
    harness          \* the load program of part_000: main, its WaitGroup, its requesters

vars == <<RateLimitRate, RateLimitBurst, TimeLimit, Delay, limiter, timeout, req, run, pairs,
          ctl, harness>>

\* the state of the server
server == <<RateLimitRate, RateLimitBurst, TimeLimit, Delay, limiter, timeout, req, run, pairs,
            ctl>>

config == <<RateLimitRate, RateLimitBurst, TimeLimit, Delay>>

Min(a, b) == IF a < b THEN a ELSE b

Max(a, b) == IF a > b THEN a ELSE b

(***************************************************************************)
(* The middlewares, as newHandler installs them.                           *)
(***************************************************************************)
WithoutRateLimit == [limited |-> FALSE, limit |-> 0, burst |-> 0, tokens |-> 0]

\* WithRateLimit without its r == 0 case: a limiter of rate 0
WithRateLimitUnchecked(r, b) ==
    [limited |-> TRUE, limit |-> r, burst |-> b, tokens |-> b * Token]

WithRateLimit(r, b) ==
    IF r = 0
    THEN WithoutRateLimit
    ELSE [limited |-> TRUE, limit |-> r, burst |-> b, tokens |-> b * Token]

\* limiter.Allow(): whether a token is taken now
Allow(lim) == lim.tokens >= Token

\* an Allow that takes no token
TakenNone(lim) == lim

\* the bucket after an Allow call
Taken(lim) == IF Allow(lim) THEN [lim EXCEPT !.tokens = @ - Token] ELSE lim

\* the bucket after dt has elapsed: limit tokens per second, at most burst
Refill(lim, dt) ==
    IF lim.limited
    THEN [lim EXCEPT !.tokens =
             Min(lim.burst * Token, @ + lim.limit * (dt \div Millisecond))]
    ELSE lim

\* the timeout the WithTimeLimit closure opens its scopes with; 0: noTimeLimit
WithTimeLimit(t) == t

(***************************************************************************)
(* The load programs of part_000.  Program "A" starts 2 requesters of 100  *)
(* pings each and logs every ping; program "B" starts 5 requesters of 10   *)
(* pings each and logs the pings whose err is not nil.  Here both start    *)
(* NRequesters requesters of MAttempts pings each.                         *)
(***************************************************************************)
NRequesters == 2
MAttempts == 2

Requesters == 1..NRequesters

Programs == {"A", "B"}

\* ping's "return 0, nil, err": client.Get or ioutil.ReadAll failed
TransportFailure == 0

\* what a ping can come back with: no response, or the status of /ping
PingOutcomes == {TransportFailure, StatusOK, StatusTooManyRequests,
                 StatusInternalServerError}

\* what ping returns for an outcome: program B's (statusCode, body, err), of which
\* program A's ping returns err alone
ping(o) ==
    [StatusCode |-> o, err |-> IF o = TransportFailure THEN "error" ELSE "nil"]

\* nothing logged
NoEntry == [fields |-> {}, text |-> "", err |-> ""]

\* what the requester of program p logs for a ping that returned ret
LogEntry(p, ret) ==
    IF p = "A"
    THEN [fields |-> {"Start", "Stop", "Elapsed"},
          text |-> "Request finished with err", err |-> ret.err]
    ELSE IF ret.err /= "nil"
         THEN [fields |-> {"Start", "Stop", "Elapsed"},
               text |-> "Request failed with error", err |-> ret.err]
         ELSE NoEntry

\* a requester: its goroutine's position, its loop variable, the pings it has
\* issued, and what the latest of them came back with and was logged as
NewRequester ==
    [pc |-> "new", requestCount |-> 0, issued |-> 0, outcome |-> TransportFailure,
     entry |-> NoEntry]

\* no load program is running
NotRunning ==
    [program |-> "", main |-> "none", requesterId |-> 0, waitGroup |-> 0, entries |-> 0,
     requester |-> [r \in Requesters |-> NewRequester]]

\* main of program p has built its client and is about to enter its for loop
Started(p) == [NotRunning EXCEPT !.program = p, !.main = "for"]

(***************************************************************************)
(* A request.  pc is the statement its goroutine is at; status, writes,    *)
(* error, rate, burst and value are the response; scope, opened, deadline  *)
(* and ctxErr are its context; timer is the channel of time.After.  The    *)
(* other fields are history: what the request saw when it passed a stage.  *)
(***************************************************************************)
IdleReq ==
    [pc |-> "idle", route |-> "", body |-> NoBody, status |-> 0, writes |-> 0,
     error |-> "", rate |-> 0, burst |-> 0, value |-> 0,
     admitted |-> FALSE, scope |-> "none", opened |-> 0, deadline |-> NoDeadline,
     ctxErr |-> "", timer |-> 0, delay |-> 0, elapsed |-> 0,
     cfgRate |-> 0, settled |-> FALSE, cfgTime |-> 0, seq |-> 0, full |-> FALSE,
     known |-> {}, clean |-> FALSE, prev |-> <<>>, again |-> FALSE, trace |-> <<>>,
     sent |-> NoBody]

\* a finished request, its details dropped from the history
Served(r) == [IdleReq EXCEPT !.pc = "done", !.writes = r.writes]

Init ==
    /\ RateLimitRate \in StartRates
    /\ RateLimitBurst \in StartBursts
    /\ TimeLimit \in StartTimeLimits
    /\ Delay = 0 * Millisecond
    /\ limiter = WithRateLimit(RateLimitRate, RateLimitBurst)
    /\ timeout = WithTimeLimit(TimeLimit)
    /\ req = [i \in Reqs |-> IdleReq]
    /\ run = [calls |-> 0, full |-> TRUE, admitted |-> 0, put |-> FALSE]
    /\ pairs = {<<RateLimitRate, RateLimitBurst>>}
    /\ ctl = [delay |-> NoBody]
    /\ harness = NotRunning

(***************************************************************************)
(* The history keeps the details of the latest finished request only: when *)
(* request i takes the step that makes it r, the requests that finished    *)
(* before are reduced to Served: finished, and how often answered.         *)
(***************************************************************************)
Step(i, r) ==
    [j \in Reqs |->
        IF j = i THEN r
        ELSE IF r.pc = "done" /\ req[j].pc = "done" THEN Served(req[j])
        ELSE req[j]]

\* requests are numbered in the order they arrive
Arrives(i) ==
    /\ req[i].pc = "idle"
    /\ \A j \in Reqs : j < i => req[j].pc /= "idle"

(***************************************************************************)
(* The closure of WithRateLimit (WithoutRateLimit when built with r = 0).  *)
(***************************************************************************)
\* the closure calls c.Next()
Passes(lim) == ~lim.limited \/ Allow(lim)

\* a route registered outside the chain: its requests reach the handler
\* without a call of the closure
AdmitUngated(i) ==
    /\ Arrives(i)
    /\ limiter' = limiter
    /\ run' = [run EXCEPT !.calls = IF limiter.limited THEN @ + 1 ELSE @,
                          !.admitted = IF run.put THEN @ + 1 ELSE @]

\* request i arrives and the closure lets it through
Admit(i) ==
    /\ Arrives(i)
    /\ Passes(limiter)
    /\ limiter' = IF limiter.limited THEN Taken(limiter) ELSE limiter
    /\ run' = [run EXCEPT !.calls = IF limiter.limited THEN @ + 1 ELSE @,
                          !.admitted = IF run.put THEN @ + 1 ELSE @]

\* a closure that aborts with 429 and goes on down the chain all the same
RejectUnreturned(i, route) ==
    /\ Arrives(i)
    /\ ~Passes(limiter)
    /\ limiter' = Taken(limiter)
    /\ req' = Step(i, [req[i] EXCEPT !.pc = "done", !.route = route,
                                     !.status = StatusTooManyRequests,
                                     !.writes = @ + 1,
                                     !.scope = IF timeout = 0 THEN @ ELSE "closed",
                                     !.opened = timeout,
                                     !.cfgRate = RateLimitRate,
                                     !.settled = (\A j \in Reqs : req[j].pc /= "putBurst"),
                                     !.seq = run.calls + 1, !.full = run.full])
    /\ run' = [run EXCEPT !.calls = @ + 1]
    /\ UNCHANGED <<config, timeout, pairs, ctl, harness>>

\* request i arrives and the closure aborts it: c.AbortWithStatus(429)
Reject(i, route) ==
    /\ Arrives(i)
    /\ ~Passes(limiter)
    /\ limiter' = Taken(limiter)
    /\ req' = Step(i, [req[i] EXCEPT !.pc = "done", !.route = route,
                                     !.status = StatusTooManyRequests,
                                     !.writes = @ + 1,
                                     !.cfgRate = RateLimitRate,
                                     !.settled = (\A j \in Reqs : req[j].pc /= "putBurst"),
                                     !.seq = run.calls + 1, !.full = run.full])
    /\ run' = [run EXCEPT !.calls = @ + 1]
    /\ UNCHANGED <<config, timeout, pairs, ctl, harness>>

(***************************************************************************)
(* The closure of WithTimeLimit (noTimeLimit when built with timeout 0):   *)
(* context.WithTimeout(c.Request.Context(), timeout), defer cancel().      *)
(***************************************************************************)
\* the closure without c.Request = c.Request.WithContext(ctx): the handler is
\* left with the parent context
ScopedDetached(r) ==
    [r EXCEPT !.scope = "open", !.opened = timeout, !.trace = Append(@, "open")]

\* context.WithTimeout(parent, t): done at once when t <= 0
Scoped(r) ==
    [r EXCEPT !.scope = "open", !.opened = timeout, !.deadline = Max(timeout, 0),
              !.ctxErr = IF timeout <= 0 THEN DeadlineExceeded ELSE @,
              !.trace = Append(@, "open")]

\* WithTimeLimit without its timeout == 0 case
OpenScopeUnchecked(r) ==
    [r EXCEPT !.scope = "open", !.opened = timeout, !.deadline = Max(timeout, 0),
              !.ctxErr = IF timeout <= 0 THEN DeadlineExceeded ELSE @,
              !.trace = Append(@, "open")]

OpenScope(r) == IF timeout = 0 THEN r ELSE Scoped(r)

\* a closure without its defer: cancel is never called
ScopeLeftOpen(r) == r

\* the deferred function: cancel()
CloseScope(r) ==
    IF r.scope = "open"
    THEN [r EXCEPT !.scope = "closed", !.trace = Append(@, "close")]
    ELSE r

\* request i as its handler finds it, both middlewares passed
Entered(i, route, body) ==
    OpenScope([req[i] EXCEPT !.route = route, !.body = body, !.admitted = TRUE,
                             !.trace = <<"admit">>,
                             !.seq = IF limiter.limited THEN run.calls + 1 ELSE 0,
                             !.full = limiter.limited /\ run.full,
                             !.cfgTime = TimeLimit])

\* c.JSON(code, ...) or c.Status(code); the handler returns, the deferred cancel
\* runs, the chain returns to the server, which completes the response
Respond(r, code) ==
    [CloseScope([r EXCEPT !.status = code, !.writes = @ + 1,
                          !.trace = Append(@, "respond")])
        EXCEPT !.pc = "done", !.trace = Append(@, "return")]

(***************************************************************************)
(* handlePing: select { case <-time.After(Delay) ; case <-ctx.Done() }.    *)
(***************************************************************************)
\* time.After(d): a timer that has d left to run; at once when d <= 0
After(d) == Max(d, 0)

Ping(i) ==
    /\ Admit(i)
    /\ req' = Step(i, [Entered(i, "GET /ping", NoBody)
                         EXCEPT !.pc = "wait", !.delay = Delay, !.timer = After(Delay),
                                !.trace = Append(@, "wait"), !.sent = ctl.delay])
    /\ UNCHANGED <<config, timeout, pairs, ctl, harness>>

\* a wait that goes by the Delay stored now, not by the one it started with
PongRereading(i) ==
    /\ req[i].pc = "wait"
    /\ req[i].elapsed >= After(Delay)
    /\ req' = Step(i, Respond(req[i], StatusOK))
    /\ UNCHANGED <<config, limiter, timeout, run, pairs, ctl, harness>>

\* case <-time.After(Delay)
Pong(i) ==
    /\ req[i].pc = "wait"
    /\ req[i].timer = 0
    /\ req' = Step(i, Respond(req[i], StatusOK))
    /\ UNCHANGED <<config, limiter, timeout, run, pairs, ctl, harness>>

\* a ctx.Done() case that returns without writing a response
CtxDoneSilent(i) ==
    /\ req[i].pc = "wait"
    /\ req[i].ctxErr /= ""
    /\ req' = Step(i, CloseScope([req[i] EXCEPT !.pc = "done"]))
    /\ UNCHANGED <<config, limiter, timeout, run, pairs, ctl, harness>>

\* case <-ctx.Done()
CtxDone(i) ==
    /\ req[i].pc = "wait"
    /\ req[i].ctxErr /= ""
    /\ req' = Step(i, [Respond(req[i], StatusInternalServerError)
                         EXCEPT !.error = req[i].ctxErr])
    /\ UNCHANGED <<config, limiter, timeout, run, pairs, ctl, harness>>

\* the client goes away: net/http cancels c.Request.Context()
ClientCancel(i) ==
    /\ req[i].pc = "wait"
    /\ req[i].ctxErr = ""
    /\ req' = Step(i, [req[i] EXCEPT !.ctxErr = Canceled])
    /\ UNCHANGED <<config, limiter, timeout, run, pairs, ctl, harness>>

(***************************************************************************)
(* The control endpoints.                                                  *)
(***************************************************************************)
\* Go's integer division truncates toward zero
Quot(a, b) == IF a >= 0 THEN a \div b ELSE -((-a) \div b)

\* a handler that answers 400 and, its return missing, goes on to store the
\* fields of the request it could not bind, which are all zero
BindErrorUnreturned(i, route) ==
    /\ route \in {"PUT /rate-limit", "PUT /time-limit", "PUT /delay"}
    /\ Admit(i)
    /\ req' = Step(i, [Respond(Entered(i, route, BadBody), StatusBadRequest)
                         EXCEPT !.error = "bind"])
    /\ RateLimitRate' = IF route = "PUT /rate-limit" THEN 0 ELSE RateLimitRate
    /\ RateLimitBurst' = IF route = "PUT /rate-limit" THEN 0 ELSE RateLimitBurst
    /\ TimeLimit' = IF route = "PUT /time-limit" THEN 0 ELSE TimeLimit
    /\ Delay' = IF route = "PUT /delay" THEN 0 ELSE Delay
    /\ UNCHANGED <<timeout, pairs, ctl, harness>>

\* ShouldBindJSON failed: c.JSON(http.StatusBadRequest, buildError(...)); return
BindError(i, route) ==
    /\ route \in {"PUT /rate-limit", "PUT /time-limit", "PUT /delay"}
    /\ Admit(i)
    /\ req' = Step(i, [Respond(Entered(i, route, BadBody), StatusBadRequest)
                         EXCEPT !.error = "bind"])
    /\ UNCHANGED <<config, timeout, pairs, ctl, harness>>

\* the answered GET /rate-limit requests that are the latest request to have
\* finished and that no PUT /rate-limit wrote during or has written since
Fresh ==
    {j \in Reqs : /\ req[j].route = "GET /rate-limit" /\ req[j].status = StatusOK
                  /\ req[j].clean
                  /\ \A k \in Reqs : req[k].pc /= "putBurst"}

\* handleGetRateLimit evaluates "rate": RateLimitRate ...
GetRate(i) ==
    /\ Admit(i)
    /\ req' = Step(i, [Entered(i, "GET /rate-limit", NoBody)
                         EXCEPT !.pc = "getBurst", !.rate = RateLimitRate,
                                !.prev = IF Fresh = {} THEN <<>>
                                         ELSE LET j == CHOOSE k \in Fresh : TRUE
                                              IN  <<j, req[j].rate, req[j].burst>>])
    /\ UNCHANGED <<config, timeout, pairs, ctl, harness>>

\* the GET /rate-limit that request i found answered when it started is the
\* latest request to have finished still, and no PUT /rate-limit has written
Again(i) == req[i].prev /= <<>> /\ req[i].prev[1] \in Fresh

\* handleGetRateLimit done: whether a PUT /rate-limit wrote while it ran
Clean(i) == req[i].rate = RateLimitRate /\ \A k \in Reqs : req[k].pc /= "putBurst"

\* a handleGetRateLimit that puts the burst back to 1 once it has read it
GetBurstResetting(i) ==
    /\ req[i].pc = "getBurst"
    /\ req' = Step(i, [Respond(req[i], StatusOK)
                         EXCEPT !.burst = RateLimitBurst, !.known = pairs,
                                !.clean = Clean(i), !.again = Again(i)])
    /\ RateLimitBurst' = 1
    /\ UNCHANGED <<RateLimitRate, TimeLimit, Delay, limiter, timeout, run, pairs, ctl, harness>>

\* ... then "burst": RateLimitBurst, and writes the answer
GetBurst(i) ==
    /\ req[i].pc = "getBurst"
    /\ req' = Step(i, [Respond(req[i], StatusOK)
                         EXCEPT !.burst = RateLimitBurst, !.known = pairs,
                                !.clean = Clean(i), !.again = Again(i)])
    /\ UNCHANGED <<config, limiter, timeout, run, pairs, ctl, harness>>

\* handleUpdateRateLimit: RateLimitRate = request.Rate ...
PutRate(i, body) ==
    /\ Admit(i)
    /\ RateLimitRate' = body.Rate
    /\ req' = Step(i, [Entered(i, "PUT /rate-limit", body) EXCEPT !.pc = "putBurst"])
    /\ pairs' = pairs \cup {<<body.Rate, body.Burst>>}
    /\ UNCHANGED <<RateLimitBurst, TimeLimit, Delay, timeout, ctl, harness>>

\* ... then RateLimitBurst = request.Burst; c.Status(http.StatusOK)
PutBurst(i) ==
    /\ req[i].pc = "putBurst"
    /\ RateLimitBurst' = req[i].body.Burst
    /\ req' = Step(i, Respond(req[i], StatusOK))
    /\ run' = [run EXCEPT !.admitted = 0, !.put = TRUE]
    /\ UNCHANGED <<RateLimitRate, TimeLimit, Delay, limiter, timeout, pairs, ctl, harness>>

GetTimeLimit(i) ==
    /\ Admit(i)
    /\ req' = Step(i, [Respond(Entered(i, "GET /time-limit", NoBody), StatusOK)
                         EXCEPT !.value = Quot(TimeLimit, Millisecond)])
    /\ UNCHANGED <<config, timeout, pairs, ctl, harness>>

\* TimeLimit = time.Duration(request.TimeLimit) * time.Millisecond
PutTimeLimit(i, body) ==
    /\ Admit(i)
    /\ TimeLimit' = body.TimeLimit * Millisecond
    /\ req' = Step(i, Respond(Entered(i, "PUT /time-limit", body), StatusOK))
    /\ UNCHANGED <<RateLimitRate, RateLimitBurst, Delay, timeout, pairs, ctl, harness>>

\* a handleGetDelay that answers with Delay as it is stored, in nanoseconds
GetDelayNanos(i) ==
    /\ Admit(i)
    /\ req' = Step(i, [Respond(Entered(i, "GET /delay", NoBody), StatusOK)
                         EXCEPT !.value = Delay])
    /\ UNCHANGED <<config, timeout, pairs, ctl, harness>>

\* c.JSON(http.StatusOK, gin.H{"delay": Delay / time.Millisecond})
GetDelay(i) ==
    /\ Admit(i)
    /\ req' = Step(i, [Respond(Entered(i, "GET /delay", NoBody), StatusOK)
                         EXCEPT !.value = Quot(Delay, Millisecond)])
    /\ UNCHANGED <<config, timeout, pairs, ctl, harness>>

\* c.ShouldBindJSON(&request) into an UpdateDelayRequest: the key "delay" fills
\* the field Delay, any other key is ignored, a field without a key stays 0
BindDelay(body) ==
    [Delay |-> IF "Delay" \in DOMAIN body THEN body.Delay ELSE 0]

\* Delay = time.Duration(request.Delay) * time.Millisecond
PutDelay(i, body) ==
    /\ Admit(i)
    /\ Delay' = BindDelay(body).Delay * Millisecond
    /\ req' = Step(i, Respond(Entered(i, "PUT /delay", body), StatusOK))
    /\ ctl' = [ctl EXCEPT !.delay = body]
    /\ UNCHANGED <<RateLimitRate, RateLimitBurst, TimeLimit, timeout, pairs, harness>>

(***************************************************************************)
(* The clock moves by dt: the timers of the waiting selects and the        *)
(* deadlines of their contexts run down, the bucket refills.               *)
(***************************************************************************)
Waiting == {i \in Reqs : req[i].pc = "wait"}

\* a context whose deadline fires at the first timer tick
ElapseHasty(r, dt) ==
    [r EXCEPT !.timer = @ - dt,
              !.elapsed = @ + dt,
              !.deadline = IF @ = NoDeadline THEN @ ELSE @ - dt,
              !.ctxErr = IF r.deadline /= NoDeadline THEN DeadlineExceeded ELSE @]

\* what dt does to a request suspended in the select
Elapse(r, dt) ==
    [r EXCEPT !.timer = @ - dt,
              !.elapsed = @ + dt,
              !.deadline = IF @ = NoDeadline THEN @ ELSE @ - dt,
              !.ctxErr = IF r.deadline = dt THEN DeadlineExceeded ELSE @]

Tick(dt) ==
    /\ \A i \in Reqs : req[i].pc \in {"idle", "wait", "done"}
    /\ \A i \in Waiting :
          /\ req[i].ctxErr = ""
          /\ dt <= req[i].timer
          /\ req[i].deadline = NoDeadline \/ dt <= req[i].deadline
    /\ req' = [i \in Reqs |-> IF i \in Waiting THEN Elapse(req[i], dt) ELSE req[i]]
    /\ limiter' = Refill(limiter, dt)
    /\ run' = [run EXCEPT !.calls = 0, !.admitted = 0,
                          !.full = (limiter'.tokens = limiter'.burst * Token)]
    /\ UNCHANGED <<config, timeout, pairs, ctl, harness>>

Next ==
    \/ \E i \in Reqs, route \in Routes : Reject(i, route)
    \/ \E i \in Reqs : Ping(i)
    \/ \E i \in Reqs : Pong(i)
    \/ \E i \in Reqs : CtxDone(i)
    \/ \E i \in Reqs : ClientCancel(i)
    \/ \E i \in Reqs, route \in Routes : BindError(i, route)
    \/ \E i \in Reqs : GetRate(i)
    \/ \E i \in Reqs : GetBurst(i)
    \/ \E i \in Reqs, body \in UpdateRateLimitRequest : PutRate(i, body)
    \/ \E i \in Reqs : PutBurst(i)
    \/ \E i \in Reqs : GetTimeLimit(i)
    \/ \E i \in Reqs, body \in UpdateTimeLimitRequest : PutTimeLimit(i, body)
    \/ \E i \in Reqs : GetDelay(i)
    \/ \E i \in Reqs, body \in UpdateDelayRequest \cup DelayBounds : PutDelay(i, body)
    \/ Tick(TickStep)

Spec == Init /\ [][Next]_vars

(***************************************************************************)
(* The load program.  The server it pings is left out: a ping comes back   *)
(* with any of the outcomes the server, or the transport, can produce.     *)
(***************************************************************************)
HarnessInit ==
    /\ RateLimitRate = 0
    /\ RateLimitBurst = 1
    /\ TimeLimit = 500 * Millisecond
    /\ Delay = 0 * Millisecond
    /\ limiter = WithRateLimit(RateLimitRate, RateLimitBurst)
    /\ timeout = WithTimeLimit(TimeLimit)
    /\ req = [i \in Reqs |-> IdleReq]
    /\ run = [calls |-> 0, full |-> TRUE, admitted |-> 0, put |-> FALSE]
    /\ pairs = {<<RateLimitRate, RateLimitBurst>>}
    /\ ctl = [delay |-> NoBody]
    /\ harness \in {Started(p) : p \in Programs}

\* the goroutine of requester r can run: main has not returned
Alive(r) == harness.main /= "exit"

\* main's for loop: waitGroup.Add(1); go func(logger) {...}(contextLogger);
\* after the last iteration main is at waitGroup.Wait()
Go(r) ==
    /\ harness.main = "for"
    /\ r = harness.requesterId + 1
    /\ harness' = [harness EXCEPT !.requesterId = r,
                                  !.waitGroup = @ + 1,
                                  !.requester[r].pc = "loop",
                                  !.main = IF r = NRequesters THEN "wait" ELSE "for"]
    /\ UNCHANGED server

\* the requester's loop: requestCount < M; startTime := time.Now(); ping(client)
Get(r) ==
    /\ Alive(r)
    /\ harness.requester[r].pc = "loop"
    /\ harness.requester[r].requestCount < MAttempts
    /\ harness' = [harness EXCEPT !.requester[r].pc = "ping",
                                  !.requester[r].issued = @ + 1]
    /\ UNCHANGED server

\* a requester whose loop ends at the first ping that fails
ReturnsOrBreaks(r, o) ==
    /\ Alive(r)
    /\ harness.requester[r].pc = "ping"
    /\ harness' = [harness EXCEPT
                      !.requester[r].pc = "loop",
                      !.requester[r].requestCount = IF o = StatusOK THEN @ + 1 ELSE MAttempts,
                      !.requester[r].outcome = o,
                      !.requester[r].entry = LogEntry(harness.program, ping(o)),
                      !.entries = IF LogEntry(harness.program, ping(o)) = NoEntry
                                  THEN @ ELSE @ + 1]
    /\ UNCHANGED server

\* ping returns with outcome o: stopTime, elapsedTime, the log entry (if any),
\* and the loop goes on to requestCount++
Returns(r, o) ==
    /\ Alive(r)
    /\ harness.requester[r].pc = "ping"
    /\ harness' = [harness EXCEPT
                      !.requester[r].pc = "loop",
                      !.requester[r].requestCount = @ + 1,
                      !.requester[r].outcome = o,
                      !.requester[r].entry = LogEntry(harness.program, ping(o)),
                      !.entries = IF LogEntry(harness.program, ping(o)) = NoEntry
                                  THEN @ ELSE @ + 1]
    /\ UNCHANGED server

\* the loop is over; the goroutine returns: defer waitGroup.Done()
Done(r) ==
    /\ Alive(r)
    /\ harness.requester[r].pc = "loop"
    /\ harness.requester[r].requestCount >= MAttempts
    /\ harness' = [harness EXCEPT !.requester[r].pc = "returned",
                                  !.waitGroup = @ - 1]
    /\ UNCHANGED server

\* a main that returns without waiting for its requesters
WaitUnjoined ==
    /\ harness.main = "wait"
    /\ harness' = [harness EXCEPT !.main = "exit"]
    /\ UNCHANGED server

\* waitGroup.Wait() returns, and main with it: the process ends
Wait ==
    /\ harness.main = "wait"
    /\ harness.waitGroup = 0
    /\ harness' = [harness EXCEPT !.main = "exit"]
    /\ UNCHANGED server

HarnessNext ==
    \/ \E r \in Requesters : Go(r)
    \/ \E r \in Requesters : Get(r)
    \/ \E r \in Requesters, o \in PingOutcomes : Returns(r, o)
    \/ \E r \in Requesters : Done(r)
    \/ Wait

HarnessSpec == HarnessInit /\ [][HarnessNext]_vars

\* the Go runtime runs every runnable goroutine, and every ping comes back
HarnessLive ==
    /\ HarnessSpec
    /\ \A r \in Requesters : WF_vars(Go(r))
    /\ \A r \in Requesters : WF_vars(Get(r))
    /\ \A r \in Requesters : WF_vars(\E o \in PingOutcomes : Returns(r, o))
    /\ \A r \in Requesters : WF_vars(Done(r))
    /\ WF_vars(Wait)

(***************************************************************************)
(* Properties of the control plane.                                        *)
(***************************************************************************)
\* no handleUpdateRateLimit is between its two assignments
Settled == \A j \in Reqs : req[j].pc /= "putBurst"

\* C1: every admission decision follows the RateLimitConfig stored at the time of
\* the call.  (a) A request is never rejected with 429 while the stored rate is 0.
\* (b) Once a PUT /rate-limit has completed and the stored rate is above 0, of the
\* requests arriving with no time elapsing since then no more than the stored
\* burst are let through.
C1_AdmissionFollowsStoredConfig ==
    /\ \A i \in Reqs :
          req[i].status = StatusTooManyRequests /\ req[i].settled => req[i].cfgRate /= 0
    /\ Settled /\ run.put /\ RateLimitRate > 0 => run.admitted <= RateLimitBurst

\* C2: the timeout of a request's scope is the TimeLimit stored when the scope is
\* opened: no scope when it is 0, a scope that expires after TimeLimit otherwise.
C2_ScopeUsesStoredTimeLimit ==
    \A i \in Reqs :
        req[i].admitted =>
            /\ req[i].cfgTime = 0 => req[i].scope = "none"
            /\ req[i].cfgTime > 0 => req[i].scope /= "none" /\ req[i].opened = req[i].cfgTime

\* C3: in every reachable state the stored configuration satisfies rate >= 0,
\* burst >= 1 and all durations >= 0 (an update that violates this is refused).
C3_StoredConfigValid ==
    /\ RateLimitRate >= 0
    /\ RateLimitBurst >= 1
    /\ TimeLimit >= 0
    /\ Delay >= 0

\* a (rate, burst) pair that satisfies the data model's invariants
Valid(pair) == pair[1] >= 0 /\ pair[2] >= 1

\* C4: a GET /rate-limit that ran while at most one PUT /rate-limit (of a valid
\* pair) had been made answers with the pair the server started with or the pair
\* that PUT carried, never with the rate of one and the burst of the other.
C4_GetRateLimitNotTorn ==
    \A i \in Reqs :
        /\ req[i].route = "GET /rate-limit"
        /\ req[i].status = StatusOK
        /\ Cardinality(req[i].known) <= 2
        /\ \A pair \in req[i].known : Valid(pair)
        => <<req[i].rate, req[i].burst>> \in req[i].known

\* C5: once every PUT /rate-limit made so far (each of a valid pair) has
\* completed, the stored (rate, burst) is one of the submitted pairs (or the pair
\* the server started with), never the rate of one request with the burst of
\* another.
C5_PutRateLimitSerialized ==
    Settled /\ (\A pair \in pairs : Valid(pair))
        => <<RateLimitRate, RateLimitBurst>> \in pairs

(***************************************************************************)
(* Properties of the ping pipeline.                                        *)
(***************************************************************************)
\* the pings whose handler has returned, latest details still in the history
Ponged(i) == req[i].route = "GET /ping" /\ req[i].pc = "done" /\ req[i].admitted

\* C6 as stated: with a scope timeout t > 0 and a delay d > t, a ping ends with
\* the deadline-exceeded 5xx outcome at time t after the scope opened.
C6_DeadlineInterruptsWait ==
    \A i \in Reqs :
        Ponged(i) /\ timeout > 0 /\ req[i].delay > timeout =>
            /\ req[i].status = StatusInternalServerError
            /\ req[i].error = DeadlineExceeded
            /\ req[i].elapsed = timeout

\* C6 amended: with a scope timeout t > 0 and a delay d > t, a ping never ends
\* with 200 pong; it ends with a 5xx outcome, which is deadline-exceeded at time t
\* after the scope opened or, when the client went away before t, context
\* canceled at that earlier time.
C6_LongDelayNeverPongs ==
    \A i \in Reqs :
        Ponged(i) /\ timeout > 0 /\ req[i].delay > timeout =>
            /\ req[i].status = StatusInternalServerError
            /\ \/ req[i].error = DeadlineExceeded /\ req[i].elapsed = timeout
               \/ req[i].error = Canceled /\ req[i].elapsed < timeout

C6_Witness ==
    \E i \in Reqs :
        /\ Ponged(i) /\ timeout > 0 /\ req[i].delay > timeout
        /\ req[i].error = DeadlineExceeded /\ req[i].elapsed = timeout

\* C7 as stated: with the timeout disabled or strictly greater than the delay d,
\* the expiry signal does not fire before d elapses and every admitted ping
\* completes with 200 pong once d has elapsed.
C7_ShortDelayPongs ==
    \A i \in Reqs :
        timeout = 0 \/ timeout > req[i].delay =>
            /\ req[i].pc = "wait" => req[i].ctxErr /= DeadlineExceeded
            /\ Ponged(i) => /\ req[i].status = StatusOK
                            /\ req[i].elapsed = Max(req[i].delay, 0)

\* C7 amended: with the timeout disabled or strictly greater than the delay d,
\* the expiry signal does not fire before d elapses and no admitted ping ends
\* with the deadline-exceeded outcome: it completes with 200 pong once d has
\* elapsed or, when the client went away first, with the 5xx context-canceled
\* outcome no later than that.
C7_ShortDelayNeverTimesOut ==
    \A i \in Reqs :
        timeout = 0 \/ timeout > req[i].delay =>
            /\ req[i].pc = "wait" => req[i].ctxErr /= DeadlineExceeded
            /\ Ponged(i) =>
                  \/ /\ req[i].status = StatusOK
                     /\ req[i].error = ""
                     /\ req[i].elapsed = Max(req[i].delay, 0)
                  \/ /\ req[i].status = StatusInternalServerError
                     /\ req[i].error = Canceled
                     /\ req[i].elapsed <= Max(req[i].delay, 0)

C7_Witness ==
    \E i \in Reqs :
        /\ Ponged(i) /\ req[i].status = StatusOK
        /\ req[i].delay > 0 /\ timeout > req[i].delay
        /\ req[i].elapsed = req[i].delay

\* C8: a gate built with rate 0 lets every request through: no request is ever
\* answered 429, however many arrive and however close together.
C8_ZeroRateAdmitsAll ==
    limiter.limit = 0 => \A i \in Reqs : req[i].status /= StatusTooManyRequests

C8_Witness ==
    /\ limiter.limit = 0
    /\ \A i \in Reqs : req[i].pc = "wait" /\ req[i].admitted /\ req[i].elapsed = 0

\* C9: with a gate built with rate > 0 and burst b, of the requests that arrive
\* with no time elapsing between them, the bucket full before the first, exactly
\* the first b are let through and every later one is answered 429.
C9_BurstThenReject ==
    \A i \in Reqs :
        req[i].full =>
            /\ limiter.limited /\ limiter.limit > 0
            /\ req[i].seq <= limiter.burst => req[i].admitted /\ req[i].status /= StatusTooManyRequests
            /\ req[i].seq > limiter.burst => ~req[i].admitted /\ req[i].status = StatusTooManyRequests

C9_Witness ==
    \E i, j \in Reqs :
        /\ req[i].full /\ req[i].seq = limiter.burst /\ req[i].admitted
        /\ req[j].full /\ req[j].seq = limiter.burst + 1
        /\ req[j].status = StatusTooManyRequests

\* C10 as stated: an admitted ping is answered exactly once, with 200 pong or with
\* the deadline-exceeded outcome.
C10_PongOrTimeout ==
    \A i \in Reqs :
        Ponged(i) =>
            /\ req[i].writes = 1
            /\ \/ req[i].status = StatusOK
               \/ req[i].status = StatusInternalServerError /\ req[i].error = DeadlineExceeded

\* C10 amended: every admitted ping is eventually answered, and exactly once: with
\* 200 pong, or with the 5xx outcome that carries deadline-exceeded when the
\* deadline fired during the delay and context canceled when the client went away.
C10_ExactlyOneResponse ==
    /\ [](\A i \in Reqs :
            /\ req[i].pc = "wait" => req[i].writes = 0
            /\ req[i].pc = "done" => req[i].writes = 1
            /\ Ponged(i) =>
                  \/ req[i].status = StatusOK /\ req[i].error = ""
                  \/ /\ req[i].status = StatusInternalServerError
                     /\ req[i].error \in {DeadlineExceeded, Canceled})
    /\ \A i \in Reqs : (req[i].pc = "wait") ~> (req[i].pc = "done")

C10_Witness ==
    \E i \in Reqs :
        /\ Ponged(i) /\ req[i].writes = 1
        /\ req[i].status = StatusInternalServerError
        /\ req[i].error = DeadlineExceeded

\* C11: a request the rate gate denies is answered at once with 429 and nothing
\* else happens to it: it is never admitted, no deadline scope is opened for it,
\* no wait is started (no timer, no time spent), and 429 is its only response
\* (no 200, no timeout error).
C11_RejectShortCircuits ==
    \A i \in Reqs :
        /\ req[i].status = StatusTooManyRequests =>
              /\ req[i].pc = "done"
              /\ ~req[i].admitted
              /\ req[i].scope = "none" /\ req[i].deadline = NoDeadline
              /\ req[i].timer = 0 /\ req[i].elapsed = 0
              /\ req[i].writes = 1 /\ req[i].error = ""
        /\ req[i].pc = "wait" \/ req[i].scope /= "none" => req[i].admitted

C11_Witness ==
    \E i \in Reqs :
        /\ req[i].status = StatusTooManyRequests /\ req[i].route = "GET /ping"
        /\ timeout > 0 /\ req[i].scope = "none"

\* the JSON object GET /delay answers with: gin.H{"delay": ...}
DelayAnswer(r) == [Delay |-> r.value]

\* the latest answered GET /delay, a PUT /delay answered 200 before it
ReadBack(i) ==
    /\ req[i].route = "GET /delay" /\ req[i].status = StatusOK
    /\ ctl.delay /= NoBody

\* C12 as stated: PUT /delay {minimumDelay: a, maximumDelay: b} with 0 <= a <= b,
\* then GET /delay with no PUT /delay in between, answers
\* {minimumDelay: a, maximumDelay: b}.
C12_BoundsRoundTrip ==
    \A i \in Reqs :
        ReadBack(i) /\ ctl.delay \in DelayBounds =>
            /\ DOMAIN DelayAnswer(req[i]) = DOMAIN ctl.delay
            /\ \A k \in DOMAIN ctl.delay : DelayAnswer(req[i])[k] = ctl.delay[k]

\* C12 amended: the delay is one fixed value.  PUT /delay {delay: d} then GET
\* /delay with no PUT /delay in between answers {delay: d}; a body in the range
\* form {minimumDelay: a, maximumDelay: b} is accepted with 200, stores the
\* delay 0 and reads back as {delay: 0}.
C12_DelayRoundTrip ==
    \A i \in Reqs :
        ReadBack(i) =>
            /\ DOMAIN DelayAnswer(req[i]) = {"Delay"}
            /\ ctl.delay \in UpdateDelayRequest => DelayAnswer(req[i]).Delay = ctl.delay.Delay
            /\ ctl.delay \in DelayBounds => DelayAnswer(req[i]).Delay = 0

C12_Witness ==
    \E i \in Reqs :
        /\ ReadBack(i) /\ ctl.delay \in UpdateDelayRequest
        /\ ctl.delay.Delay > 0 /\ DelayAnswer(req[i]).Delay = ctl.delay.Delay

\* C16: a PUT to /rate-limit, /time-limit or /delay that is answered 400 changes
\* none of the stored configurations: rate, burst, time limit and delay are after
\* the step that answers 400 what they were before it, so a GET after the failed
\* PUT reads what a GET before it read.
C16_FailedPutChangesNothing ==
    [][\A i \in Reqs :
          req[i].status /= StatusBadRequest /\ req'[i].status = StatusBadRequest
              => /\ req'[i].route \in {"PUT /rate-limit", "PUT /time-limit", "PUT /delay"}
                 /\ config' = config]_vars

C16_Witness ==
    \E i \in Reqs :
        /\ req[i].status = StatusBadRequest /\ req[i].route = "PUT /delay"
        /\ Delay = 250 * Millisecond /\ TimeLimit = 250 * Millisecond

\* a step of a GET on /rate-limit, /time-limit or /delay
GetStep(i) ==
    /\ req'[i] /= req[i]
    /\ req'[i].route \in {"GET /rate-limit", "GET /time-limit", "GET /delay"}

\* C17: the GETs of the control plane are read-only.  No step of a GET on
\* /rate-limit, /time-limit or /delay changes the stored rate, burst, time limit
\* or delay; and a GET /rate-limit that starts after another was answered, no
\* PUT /rate-limit writing from the start of the first to the answer of the
\* second, answers with the same rate and burst, whatever pings run meanwhile.
C17_GetsAreReadOnly ==
    /\ [][\A i \in Reqs : GetStep(i) => config' = config]_vars
    /\ [](\A i \in Reqs :
            req[i].route = "GET /rate-limit" /\ req[i].status = StatusOK /\ req[i].again
                => <<req[i].rate, req[i].burst>> = <<req[i].prev[2], req[i].prev[3]>>)

C17_Witness ==
    \E i, j \in Reqs :
        /\ req[i].route = "GET /rate-limit" /\ req[i].status = StatusOK /\ req[i].again
        /\ <<req[i].rate, req[i].burst>> = <<req[i].prev[2], req[i].prev[3]>>
        /\ req[j].route = "GET /ping" /\ req[j].pc = "wait"

\* C18: the stages of an admitted ping occur in the order admit, open-scope,
\* wait, respond.  A scope that was opened is closed exactly once, on the 200
\* branch and on the error branch alike, after the wait has ended and before the
\* request completes (the chain returns and the response is final); no request
\* completes with its scope open.  With the time limit disabled there is no scope
\* to open or close.
C18_StagesInOrder ==
    \A i \in Reqs :
        req[i].route = "GET /ping" /\ req[i].admitted =>
            /\ (timeout = 0) = (req[i].scope = "none")
            /\ req[i].pc = "wait" =>
                  req[i].trace = IF req[i].scope = "open"
                                 THEN <<"admit", "open", "wait">>
                                 ELSE <<"admit", "wait">>
            /\ req[i].pc = "done" =>
                  /\ req[i].scope /= "open"
                  /\ req[i].trace = IF req[i].scope = "closed"
                                    THEN <<"admit", "open", "wait", "respond", "close", "return">>
                                    ELSE <<"admit", "wait", "respond", "return">>

C18_Witness ==
    \E i, j \in Reqs :
        /\ req[i].route = "GET /ping" /\ req[i].pc = "done"
        /\ req[i].error = DeadlineExceeded
        /\ req[i].trace = <<"admit", "open", "wait", "respond", "close", "return">>
        /\ req[j].route = "GET /ping" /\ req[j].pc = "wait" /\ req[j].scope = "open"

\* C19 as stated: the expiry of its own scope's deadline is the only event that
\* interrupts a ping's wait: a ping ends with the error outcome only if the
\* timeout elapsed before the delay, and with the timeout disabled no ping ends
\* with the error outcome, the client going away included.
C19_OnlyDeadlineInterrupts ==
    \A i \in Reqs :
        Ponged(i) /\ req[i].status = StatusInternalServerError =>
            /\ timeout /= 0
            /\ req[i].error = DeadlineExceeded
            /\ req[i].elapsed = timeout /\ timeout < req[i].delay

\* C19 amended: a ping's wait is interrupted by its request context being done
\* and by nothing else, and the context is done for one of two reasons: the
\* deadline of the ping's own scope expired, a time timeout after it was opened
\* and before the delay was over, or the client went away, at any time.  With the
\* timeout disabled the client going away is the only event that makes a ping
\* end with the error outcome.
C19_DeadlineOrClientInterrupts ==
    \A i \in Reqs :
        /\ req[i].pc = "wait" /\ req[i].ctxErr = DeadlineExceeded =>
              timeout /= 0 /\ req[i].elapsed = timeout
        /\ Ponged(i) /\ req[i].status = StatusInternalServerError =>
              \/ /\ req[i].error = DeadlineExceeded
                 /\ timeout /= 0
                 /\ req[i].elapsed = timeout /\ timeout < req[i].delay
              \/ req[i].error = Canceled
        /\ Ponged(i) /\ req[i].status = StatusInternalServerError /\ timeout = 0 =>
              req[i].error = Canceled

C19_Witness ==
    \E i \in Reqs :
        /\ Ponged(i) /\ timeout = 0
        /\ req[i].status = StatusInternalServerError /\ req[i].error = Canceled
        /\ req[i].elapsed < req[i].delay

\* C20: a ping reads Delay once, when its wait starts.  Its timer runs for the
\* value read then, whatever PUT /delay completes while it waits: time waited
\* and time left add up to that value, and it is answered 200 pong when exactly
\* that much time has passed.  A ping whose wait starts after a PUT /delay has
\* completed waits for the value that PUT stored.
C20_DelayReadOnceAtStart ==
    \A i \in Reqs :
        /\ req[i].pc = "wait" => req[i].elapsed + req[i].timer = After(req[i].delay)
        /\ Ponged(i) /\ req[i].status = StatusOK => req[i].elapsed = After(req[i].delay)
        /\ req[i].route = "GET /ping" /\ req[i].admitted /\ req[i].sent /= NoBody =>
              req[i].delay = BindDelay(req[i].sent).Delay * Millisecond

C20_Witness ==
    \E i \in Reqs :
        /\ Ponged(i) /\ req[i].status = StatusOK
        /\ req[i].sent = [Delay |-> 250] /\ req[i].elapsed = 250 * Millisecond
        /\ ctl.delay = [Delay |-> 750] /\ Delay = 750 * Millisecond

\* request i arrives in this step
Arrival(i) == req[i].pc = "idle" /\ req'[i].pc /= "idle"

\* C21: the rate gate and the deadline scope wrap every route.  A request on any
\* route, the GETs and PUTs of /rate-limit, /time-limit and /delay as well as
\* /ping, that arrives at an enabled gate takes a token from the one bucket if
\* there is one and is let through; if the bucket is empty it is answered 429,
\* no configuration is read into the answer and none is changed.  A request that
\* is let through runs inside a deadline scope whenever the time limit is
\* enabled, whatever its route.
C21_MiddlewaresWrapEveryRoute ==
    /\ [][\A i \in Reqs :
            Arrival(i) /\ limiter.limited =>
                /\ req'[i].route \in Routes
                /\ Allow(limiter) =>
                      /\ limiter'.tokens = limiter.tokens - Token
                      /\ req'[i].admitted
                      /\ req'[i].status /= StatusTooManyRequests
                /\ ~Allow(limiter) =>
                      /\ limiter' = limiter
                      /\ req'[i].status = StatusTooManyRequests
                      /\ ~req'[i].admitted
                      /\ req'[i].rate = 0 /\ req'[i].burst = 0 /\ req'[i].value = 0
                      /\ config' = config /\ pairs' = pairs /\ ctl' = ctl]_vars
    /\ [](\A i \in Reqs :
            req[i].admitted => (timeout = 0) = (req[i].scope = "none"))

C21_Witness ==
    \E i, j \in Reqs :
        /\ req[i].route = "GET /ping" /\ req[i].pc = "wait"
        /\ req[i].full /\ req[i].seq = limiter.burst
        /\ req[j].route = "PUT /delay" /\ req[j].status = StatusTooManyRequests
        /\ req[j].seq = limiter.burst + 1
        /\ limiter.tokens < Token /\ Delay = 0

(***************************************************************************)
(* Properties of the load program.                                         *)
(***************************************************************************)
\* requester r has been through its whole loop and has returned
Finished(r) ==
    /\ harness.requester[r].pc = "returned"
    /\ harness.requester[r].requestCount = MAttempts
    /\ harness.requester[r].issued = MAttempts

\* C13: the load program ends only after each of its N requesters has finished
\* all of its M pings: it is never over while a requester has a ping not yet
\* issued or not yet returned; and, every ping coming back, it does end.
C13_HarnessJoinsAll ==
    /\ [](harness.main = "exit" => \A r \in Requesters : Finished(r))
    /\ <>(harness.main = "exit")

C13_Witness ==
    /\ harness.main = "exit"
    /\ \A r \in Requesters : Finished(r)

\* C14: a ping that fails never ends a requester or the run: whatever its pings
\* come back with (pong, transport failure, 429, timeout), a requester goes on
\* to the next ping and returns only after it has issued all M, and the other
\* requesters are not held up: the run ends with N * M pings issued.
C14_FailureNeverAborts ==
    /\ \A r \in Requesters :
          /\ harness.requester[r].issued <= MAttempts
          /\ harness.requester[r].pc = "loop" =>
                harness.requester[r].requestCount = harness.requester[r].issued
          /\ harness.requester[r].pc = "returned" => Finished(r)
    /\ harness.main = "exit" => \A r \in Requesters : harness.requester[r].issued = MAttempts

C14_Witness ==
    \E r, q \in Requesters :
        /\ r /= q
        /\ harness.requester[r].pc = "ping" /\ harness.requester[r].issued = MAttempts
        /\ harness.requester[r].outcome /= StatusOK
        /\ harness.requester[q].pc = "ping" /\ harness.requester[q].outcome = StatusOK

\* the pings that have come back, all requesters together
Attempts ==
    LET sum[r \in 0..NRequesters] ==
            IF r = 0 THEN 0 ELSE sum[r - 1] + harness.requester[r].requestCount
    IN  sum[NRequesters]

\* C15: every ping the load program makes leaves exactly one log entry, with its
\* start, stop and elapsed time and a classification that tells success,
\* transport failure, rejected (429) and timed out apart: the entries number as
\* many as the pings that came back (N * M at the end of a run), and the entry
\* of a ping answered 429 or with the timeout error differs from the entry of a
\* ping answered 200 pong.
C15_OneClassifiedEntryPerAttempt ==
    /\ harness.entries = Attempts
    /\ \A r \in Requesters :
          harness.requester[r].requestCount > 0 =>
              /\ harness.requester[r].entry.fields = {"Start", "Stop", "Elapsed"}
              /\ harness.requester[r].outcome /= StatusOK =>
                    harness.requester[r].entry /= LogEntry(harness.program, ping(StatusOK))

(***************************************************************************)
(* Scheduling: the Go runtime runs every runnable goroutine and fires      *)
(* every timer, so the clock moves on while it may, a select with a ready  *)
(* channel is taken and a handler that has started runs to its return.     *)
(***************************************************************************)
LiveSpec ==
    /\ Spec
    /\ WF_vars(Tick(TickStep))
    /\ \A i \in Reqs : WF_vars(Pong(i) \/ CtxDone(i))
    /\ \A i \in Reqs : WF_vars(GetBurst(i) \/ PutBurst(i))

====
